---- MODULE Spec2Model ----
(***************************************************************************)
(* Model of the simulation pipeline and the mdrun job lifecycle of the MDA *)
(* web backend: routers/simulate.py (pipeline, status and stop endpoints), *)
(* session_manager.py (status reconciliation, session registry) and        *)
(* tools/gromacs_tools.py (GROMACSRunner).                                 *)
(*                                                                         *)
(* File names are sequences of tokens ("a" "_box" ".gro" is a_box.gro), so *)
(* that endswith, Path.stem and the suffix stripping are computed on the   *)
(* name and not assumed.                                                   *)
(***************************************************************************)
EXTENDS Integers, Sequences, FiniteSets, TLC

\* ------------------------------------------------------------------------
\* Bounds of the model
\* ------------------------------------------------------------------------
MaxLaunch == 2
MaxStep == 1
ExpectedSteps == 1

\* ------------------------------------------------------------------------
\* File names
\* ------------------------------------------------------------------------
NoFile == <<>>
NoneV == "None"

_COORD_EXTS == {".gro", ".pdb"}

\* str.lower() on one token of a name
Lower(t) ==
  CASE t = ".GRO" -> ".gro"
    [] t = ".PDB" -> ".pdb"
    [] t = "_BOX" -> "_box"
    [] OTHER -> t

LowerName(n) == [i \in DOMAIN n |-> Lower(n[i])]

EndsWith(n, suf) ==
  /\ Len(n) >= Len(suf)
  /\ SubSeq(n, Len(n) - Len(suf) + 1, Len(n)) = suf

\* Path(p).name: the last path component
PathName(p) == IF Len(p) > 0 /\ p[1] = "sub/" THEN Tail(p) ELSE p

\* Path(p).suffix and Path(p).stem of a bare file name
PathSuffix(n) ==
  IF Len(n) > 1 /\ Lower(n[Len(n)]) \in {".gro", ".pdb"} THEN n[Len(n)] ELSE ""

PathStem(n) == IF PathSuffix(n) = "" THEN n ELSE SubSeq(n, 1, Len(n) - 1)

DerivedSuffixes == <<"_system", "_box", "_solvated", "_ionized">>

BareDerived ==
  { <<"system", ".gro">>, <<"box", ".gro">>,
    <<"solvated", ".gro">>, <<"ionized", ".gro">> }

\* The "_ionized.gro" case forgotten
_is_derived_coord_noionized(name) ==
  LET n == LowerName(PathName(name))
  IN  \/ EndsWith(n, <<"_system", ".gro">>)
      \/ EndsWith(n, <<"_box", ".gro">>)
      \/ EndsWith(n, <<"_solvated", ".gro">>)
      \/ n \in BareDerived

_is_derived_coord(name) ==
  LET n == LowerName(PathName(name))
  IN  \/ EndsWith(n, <<"_system", ".gro">>)
      \/ EndsWith(n, <<"_box", ".gro">>)
      \/ EndsWith(n, <<"_solvated", ".gro">>)
      \/ EndsWith(n, <<"_ionized", ".gro">>)
      \/ n \in BareDerived

\* The names of the model in the order of sorted(work_dir.iterdir())
SortedNames ==
  << <<"a", ".gro">>, <<"a", ".pdb">>,
     <<"a", "_box", ".gro">>, <<"a", "_box", ".pdb">>,
     <<"a", "_box", "_box", ".gro">>, <<"a", "_box", "_ionized", ".gro">>,
     <<"a", "_box", "_solvated", ".gro">>, <<"a", "_box", "_system", ".gro">>,
     <<"a", "_ionized", ".gro">>, <<"a", "_solvated", ".gro">>,
     <<"a", "_system", ".gro">>,
     <<"b", ".pdb">>, <<"b", "_BOX", ".GRO">>,
     <<"b", "_box", ".gro">>, <<"b", "_ionized", ".gro">>,
     <<"b", "_solvated", ".gro">>, <<"b", "_system", ".gro">>,
     <<"box", ".gro">>,
     <<"ions.tpr">>, <<"md.mdp">>, <<"md.tpr">>, <<"mdout.mdp">>,
     <<"posre.itp">>, <<"topol.top">> >>

MinOf(S) == CHOOSE x \in S : \A y \in S : x <= y

\* The directory scan of _find_source_coord (lines 95-103)
ScanSourceCoord(dir) ==
  LET ok == { i \in DOMAIN SortedNames :
                /\ SortedNames[i] \in dir
                /\ Lower(PathSuffix(SortedNames[i])) \in _COORD_EXTS
                /\ ~ _is_derived_coord(SortedNames[i]) }
  IN  IF ok = {} THEN NoFile ELSE SortedNames[MinOf(ok)]

\* Every trailing derived suffix stripped, not only the one that matched
StripDerivedSuffix_greedy(n) ==
  LET r == SubSeq(n, 1, Len(n) - 2)
  IN  IF Len(r) > 1 /\ Lower(r[Len(r)]) \in {"_system", "_box", "_solvated", "_ionized"}
      THEN SubSeq(r, 1, Len(r) - 1)
      ELSE r

\* Line 88: root = n[: -len(suffix)] for the suffix "<_kind>.gro" that n ends
\* with, two tokens of the name
StripDerivedSuffix(n) == SubSeq(n, 1, Len(n) - 2)

\* Lines 82-94: recover <root>.pdb / <root>.gro from a derived preferred name
RecoverSourceCoord(dir, n) ==
  LET hit == { i \in DOMAIN DerivedSuffixes :
                 EndsWith(LowerName(n), <<DerivedSuffixes[i], ".gro">>) }
  IN  IF hit = {} THEN NoFile
      ELSE LET root == StripDerivedSuffix(n)
               pdb  == root \o <<".pdb">>
               gro  == root \o <<".gro">>
           IN  IF pdb \in dir /\ ~ _is_derived_coord(pdb) THEN pdb
               ELSE IF gro \in dir /\ ~ _is_derived_coord(gro) THEN gro
               ELSE NoFile

_find_source_coord(dir, preferred) ==
  LET pref_name == PathName(preferred)
      rec == IF pref_name # NoFile /\ _is_derived_coord(pref_name)
             THEN RecoverSourceCoord(dir, pref_name) ELSE NoFile
  IN  IF pref_name # NoFile /\ pref_name \in dir /\ ~ _is_derived_coord(pref_name)
      THEN pref_name
      ELSE IF rec # NoFile THEN rec
      ELSE ScanSourceCoord(dir)


\* ------------------------------------------------------------------------
\* Working directory, configuration and external tools
\* ------------------------------------------------------------------------
DefaultFF == "amber99sb-ildn"

TOPOL == <<"topol.top">>
POSRE == <<"posre.itp">>
MDOUT == <<"mdout.mdp">>
IONS_TPR == <<"ions.tpr">>
MD_TPR == <<"md.tpr">>
MD_MDP == <<"md.mdp">>

\* OmegaConf.select(cfg, key) or default
SelectOr(v, d) == IF v = NoneV \/ v = "" THEN d ELSE v

ContentOf(f, n) == IF n \in DOMAIN f THEN f[n] ELSE <<"missing">>

Restrict(f, S) == [n \in S |-> f[n]]

\* A tool writes its output file; GROMACS backs up an output file that is
\* already there as #name.N# (simulate.py lines 129-132).
Put(st, n, c) ==
  [st EXCEPT !.fs = (n :> c) @@ st.fs,
             !.backups = IF n \in DOMAIN st.fs THEN @ \cup {n} ELSE @,
             !.written = (n :> c) @@ @]

\* One tool invocation of the run: the tool, its distinguishing argument and
\* how it ended ("ok", "ok_nofile", "residue", "other", "fail")
Call(st, tool, arg, how) == [st EXCEPT !.calls = Append(@, <<tool, arg, how>>)]

Abort(st, code) == [st EXCEPT !.response = code]

_archive_existing(st, names) == st

_remove_existing(st, names) ==
  LET gone == names \cap DOMAIN st.fs
  IN  [st EXCEPT !.fs = Restrict(st.fs, DOMAIN st.fs \ gone),
                 !.deleted = @ \cup gone]

\* work_dir.glob("*_system.gro") ...: the match is case sensitive
_remove_matching(st) ==
  LET gone == { n \in DOMAIN st.fs :
                  \E i \in DOMAIN DerivedSuffixes :
                     EndsWith(n, <<DerivedSuffixes[i], ".gro">>) }
  IN  [st EXCEPT !.fs = Restrict(st.fs, DOMAIN st.fs \ gone),
                 !.deleted = @ \cup gone]

\* generate_mdp_from_config(cfg, work_dir / "md.mdp")
GenerateMdp(st) ==
  [st EXCEPT !.fs = (MD_MDP :> <<"mdp">>) @@ st.fs]

PdbOutcomes == {"ok", "ok_nofile", "residue", "other"}
PdbFailed(o) == o \in {"residue", "other"}

\* gmx pdb2gmx -f input -o system_gro -p topol.top -ff ff -water water
Pdb2gmx(st, input, system_gro, ff, water, o) ==
  LET s1 == Call(st, "pdb2gmx", ff, o)
      src == ContentOf(st.fs, input)
      s2 == Put(s1, TOPOL, <<"pdb2gmx.top", src, ff, water>>)
      s3 == Put(s2, POSRE, <<"pdb2gmx.itp", src, ff>>)
  IN  IF PdbFailed(o) THEN s1
      ELSE IF o = "ok_nofile" THEN s3
      ELSE Put(s3, system_gro, <<"pdb2gmx.gro", src, ff, water>>)

\* gmx editconf -f src -o box_gro -c -d clearance -bt bt
Editconf(st, src, box_gro, bt, ok) ==
  LET s1 == Call(st, "editconf", bt, IF ok THEN "ok" ELSE "fail")
  IN  IF ok THEN Put(s1, box_gro, <<"editconf", ContentOf(st.fs, src), bt>>)
      ELSE s1

\* gmx solvate -cp box_gro -cs spc216.gro -o solvated_gro -p topol.top
Solvate(st, box_gro, solvated_gro, ok) ==
  LET s1 == Call(st, "solvate", "", IF ok THEN "ok" ELSE "fail")
      box == ContentOf(st.fs, box_gro)
      s2 == Put(s1, solvated_gro, <<"solvate.gro", box>>)
  IN  IF ok THEN Put(s2, TOPOL, <<"solvate.top", ContentOf(st.fs, TOPOL), box>>)
      ELSE s1

\* gmx genion -s ions.tpr -o ionized_gro -p topol.top ... -neutral
Genion(st, ionized_gro, ok) ==
  LET s1 == Call(st, "genion", "", IF ok THEN "ok" ELSE "fail")
      tpr == ContentOf(st.fs, IONS_TPR)
      s2 == Put(s1, ionized_gro, <<"genion.gro", tpr>>)
  IN  IF ok THEN Put(s2, TOPOL, <<"genion.top", ContentOf(st.fs, TOPOL), tpr>>)
      ELSE s1

\* The scan of stderr left out
_classify_grompp_output_rconly(rc, stderr_error) == rc

\* GROMACSRunner._classify_grompp_output: the return code after the scan
\* of stderr for "ERROR"
_classify_grompp_output(rc, stderr_error) ==
  IF rc # 0 THEN rc
  ELSE IF stderr_error THEN 1 ELSE rc

\* GMXResult.success
Success(rc) == rc = 0

GromppOutcomes == { [rc |-> 0, err |-> FALSE], [rc |-> 0, err |-> TRUE],
                    [rc |-> 1, err |-> FALSE] }

GromppSuccess(o) == Success(_classify_grompp_output(o.rc, o.err))

\* GROMACSRunner.grompp, the dict returned (lines 141-145): the classified
\* return code, success, and the tpr declared in output_files on success
GromppResult(o, output_tpr) ==
  LET rc == _classify_grompp_output(o.rc, o.err)
  IN  [op |-> "grompp", rc_in |-> o.rc, err_in |-> o.err,
       returncode |-> rc, success |-> Success(rc),
       output_files |-> IF Success(rc) THEN {output_tpr} ELSE {}]

\* GROMACSRunner._run (lines 74-91): Popen, then communicate(timeout); a
\* TimeoutExpired of communicate is not caught and the child is not killed
_run(rc, timed_out) ==
  IF timed_out
  THEN [op |-> "_run", timed_out |-> TRUE, raised |-> "TimeoutExpired",
        child |-> "alive", returncode |-> {}, success |-> FALSE,
        timeout_flag |-> FALSE]
  ELSE [op |-> "_run", timed_out |-> FALSE, raised |-> "",
        child |-> "exited", returncode |-> {rc}, success |-> Success(rc),
        timeout_flag |-> FALSE]

\* GROMACSRunner.grompp: gmx grompp -f mdp -p top -c coord -o tpr
Grompp(st, stage, coord, tpr, o) ==
  LET s1 == Call(st, stage, "", IF GromppSuccess(o) THEN "ok" ELSE "fail")
      s2 == Put(s1, tpr, <<"grompp", ContentOf(st.fs, MD_MDP),
                           ContentOf(st.fs, TOPOL), ContentOf(st.fs, coord)>>)
  IN  IF o.rc = 0 THEN Put(s2, MDOUT, <<"mdout", ContentOf(st.fs, MD_MDP)>>)
      ELSE s1


\* ------------------------------------------------------------------------
\* State
\* ------------------------------------------------------------------------
VARIABLES
  fs,          \* work_dir: file name -> content
  archive,     \* work_dir/archive: set of <<name, content>>
  backups,     \* names for which a tool left a #name.N# backup in work_dir
  cfg,         \* session.agent.cfg
  run,         \* the last start_simulation call: calls made, files, response
  registered,  \* session_id in _sessions
  mdrun_proc,  \* runner._mdrun_proc: 0 is None, else the pid
  procs,       \* the processes started by mdrun: pid -> state
  sim_status,  \* session.sim_status
  run_status,  \* run_status of session.json
  logs,        \* the log files of work_dir: path -> record
  clock,       \* time.time()
  result,      \* the last response of the status endpoint since the last launch
  termSince,   \* a status query reported finished/failed since the last launch
  chosen,      \* the last result of _find_source_coord
  stopped,     \* the response of the stop endpoint when the last request was a stop
  tool         \* the outcome of the last blocking call made on the runner

vars == << fs, archive, backups, cfg, run, registered, mdrun_proc, procs,
           sim_status, run_status, logs, clock, result, termSince, chosen, stopped, tool >>

Pids == 1 .. MaxLaunch
Terminal == {"finished", "failed"}

Alive(pr, p) == pr[p].st = "alive"
Launched(pr) == { p \in Pids : pr[p].st # "unborn" }

EmptySimStatus ==
  [started_at |-> 0, output_prefix |-> "", expected_nsteps |-> {},
   has_expected |-> FALSE]

NoLog == [exists |-> FALSE, mtime |-> 0, fatal |-> FALSE, step |-> -1, owner |-> 0]

LogPaths == {"simulation/md.log", "md.log"}
LogPath(prefix) == IF prefix = "md" THEN "md.log" ELSE "simulation/md.log"

\* The running flag left set in the answer given without a job
Standby_running ==
  [running |-> TRUE, status |-> "standby", pid |-> 0, exit_code |-> {},
   detected_by |-> ""]

\* {"running": False, "status": "standby"}
Standby ==
  [running |-> FALSE, status |-> "standby", pid |-> 0, exit_code |-> {},
   detected_by |-> ""]

\* No status query answered since the last launch
NoResult ==
  [running |-> FALSE, status |-> "", pid |-> 0, exit_code |-> {},
   detected_by |-> ""]

NoTool == [op |-> ""]

NoRun ==
  [calls |-> <<>>, deleted |-> {}, written |-> <<>>, response |-> "",
   input |-> NoFile, before |-> <<>>, clean |-> FALSE, prev_clean |-> FALSE,
   cfg_before |-> <<>>]

\* ------------------------------------------------------------------------
\* GROMACSRunner
\* ------------------------------------------------------------------------
\* What the process of the handle does when it is signalled: it exits
\* within the grace period, it is still alive after it ("stubborn"), or
\* the signalling raises
CleanupHows == {"exits", "stubborn", "raises"}

\* The handle cleared inside the try block instead of the finally block
_cleanup_nofinally(pr, h, how) ==
  IF h = 0 THEN [procs |-> pr, handle |-> 0]
  ELSE IF ~Alive(pr, h) THEN [procs |-> pr, handle |-> 0]
  ELSE IF how = "raises" THEN [procs |-> pr, handle |-> h]
  ELSE IF how = "exits"
  THEN [procs |-> [pr EXCEPT ![h].st = "killed", ![h].sig = <<"TERM">>],
        handle |-> 0]
  ELSE [procs |-> [pr EXCEPT ![h].st = "killed", ![h].sig = <<"TERM", "KILL">>],
        handle |-> 0]

\* GROMACSRunner._cleanup: nothing without a handle; terminate() on a live
\* process, kill() when wait(timeout=5) times out; an exception is
\* swallowed and the finally block clears the handle in every case.
_cleanup(pr, h, how) ==
  IF h = 0 THEN [procs |-> pr, handle |-> 0]
  ELSE IF ~Alive(pr, h) THEN [procs |-> pr, handle |-> 0]
  ELSE IF how = "raises" THEN [procs |-> pr, handle |-> 0]
  ELSE IF how = "exits"
  THEN [procs |-> [pr EXCEPT ![h].st = "killed", ![h].sig = <<"TERM">>],
        handle |-> 0]
  ELSE [procs |-> [pr EXCEPT ![h].st = "killed", ![h].sig = <<"TERM", "KILL">>],
        handle |-> 0]

\* The processes after _cleanup called from a handler; the handle is
\* cleared through CleanupHandle.
CleanupProcs(pr, h, raises) ==
  _cleanup(pr, h, IF raises THEN "raises" ELSE "exits").procs

\* GROMACSRunner.is_mdrun_running
is_mdrun_running(h, pr) == h # 0 /\ Alive(pr, h)

\* The handle left in place
CleanupHandle_keeps(h) == h

\* self._mdrun_proc = None of the finally block (line 116)
CleanupHandle(h) == 0

\* mdrun: Popen, the handle is overwritten with the new process
MdrunProcs(pr, p, prefix) ==
  [pr EXCEPT ![p] = [st |-> "alive", prefix |-> prefix, sig |-> <<>>]]

NextPid(pr) == Cardinality(Launched(pr)) + 1


\* ------------------------------------------------------------------------
\* start_simulation: the pipeline (simulate.py lines 116-307)
\* ------------------------------------------------------------------------
\* The return code of a stage not looked at
ToolFailed_ignored(ok) == FALSE

\* result["returncode"] != 0 of a run_gmx_command stage
ToolFailed(ok) == ~ok

\* The fallback taken on every failure of pdb2gmx
ShouldRetryPdb2gmx_anyfailure(o, forcefield) ==
  PdbFailed(o) /\ forcefield # DefaultFF

\* The condition of the force-field fallback (lines 183-185)
ShouldRetryPdb2gmx(o, forcefield) ==
  PdbFailed(o) /\ o = "residue" /\ forcefield # DefaultFF

\* The topology and coordinate files of the pipeline
Artifacts(f) ==
  Restrict(f, { n \in DOMAIN f : n = TOPOL \/ _is_derived_coord(n) })

\* Step A: pdb2gmx, with the fallback to amber99sb-ildn
StepA(st, input_coord, system_gro, forcefield, water_model, oc) ==
  LET a1 == _archive_existing(st, {system_gro, TOPOL, POSRE, MDOUT})
      a2 == _remove_existing(a1, {system_gro, TOPOL, MDOUT})
      a3 == _remove_matching(a2)
      r1 == Pdb2gmx(a3, input_coord, system_gro, forcefield, water_model, oc.pdb1)
      retry == ShouldRetryPdb2gmx(oc.pdb1, forcefield)
      r2 == IF retry
            THEN Pdb2gmx(r1, input_coord, system_gro, DefaultFF, water_model, oc.pdb2)
            ELSE r1
      last == IF retry THEN oc.pdb2 ELSE oc.pdb1
      r3 == IF retry /\ ~PdbFailed(oc.pdb2)
            THEN [r2 EXCEPT !.cfg.forcefield = DefaultFF] ELSE r2
  IN  IF PdbFailed(last) THEN Abort(r3, "500:pdb2gmx") ELSE r3

\* Step B, water_model != "none": editconf, solvate, grompp (ions), genion
StepBSolvated(st, system_gro, box_gro, solvated_gro, ionized_gro, oc) ==
  IF system_gro \notin DOMAIN st.fs THEN Abort(st, "500:no_system_gro")
  ELSE
  LET b0 == _remove_existing(
              _archive_existing(st, {ionized_gro, solvated_gro, box_gro, IONS_TPR}),
              {ionized_gro, solvated_gro, box_gro, IONS_TPR, MDOUT})
      b1 == Editconf(b0, system_gro, box_gro, "dodecahedron", oc.editconf)
      b2 == Solvate(b1, box_gro, solvated_gro, oc.solvate)
      b3 == Grompp(b2, "grompp_ions", solvated_gro, IONS_TPR, oc.grompp_ions)
      b4 == Genion(b3, ionized_gro, oc.genion)
  IN  IF ToolFailed(oc.editconf) THEN Abort(b1, "500:editconf")
      ELSE IF ToolFailed(oc.solvate) THEN Abort(b2, "500:solvate")
      ELSE IF ~GromppSuccess(oc.grompp_ions) THEN Abort(b3, "500:grompp_ions")
      ELSE IF ToolFailed(oc.genion) THEN Abort(b4, "500:genion")
      ELSE [b4 EXCEPT !.coord_file = ionized_gro,
                      !.cfg.coordinates = ionized_gro]

\* The production compile given what editconf read, not what it wrote
StepBVacuum_srccoord(st, input_coord, system_gro, box_gro, oc) ==
  LET v0 == _remove_existing(_archive_existing(st, {box_gro}), {box_gro})
      src == IF system_gro \in DOMAIN v0.fs THEN system_gro ELSE input_coord
      v1 == Editconf(v0, src, box_gro, "cubic", oc.editconf)
  IN  IF ToolFailed(oc.editconf) THEN Abort(v1, "500:editconf")
      ELSE [v1 EXCEPT !.coord_file = src]

\* Step B, vacuum: editconf with a cubic box
StepBVacuum(st, input_coord, system_gro, box_gro, oc) ==
  LET v0 == _remove_existing(_archive_existing(st, {box_gro}), {box_gro})
      src == IF system_gro \in DOMAIN v0.fs THEN system_gro ELSE input_coord
      v1 == Editconf(v0, src, box_gro, "cubic", oc.editconf)
  IN  IF ToolFailed(oc.editconf) THEN Abort(v1, "500:editconf")
      ELSE [v1 EXCEPT !.coord_file = box_gro]

\* Step C: production grompp -> md.tpr
StepC(st, oc) ==
  LET c0 == _archive_existing(st, {MD_TPR, MDOUT})
      c1 == Grompp(c0, "grompp", st.coord_file, MD_TPR, oc.grompp)
  IN  IF ~GromppSuccess(oc.grompp) THEN Abort(c1, "500:grompp") ELSE c1

\* Lines 144-281: everything before the launch
Pipeline(s0, oc) ==
  LET forcefield  == SelectOr(s0.cfg.forcefield, DefaultFF)
      water_model == SelectOr(s0.cfg.water_model, "none")
      s1 == GenerateMdp(s0)
      input_coord == _find_source_coord(DOMAIN s1.fs, s1.cfg.coordinates)
      input_stem   == PathStem(input_coord)
      system_gro   == input_stem \o <<"_system", ".gro">>
      box_gro      == input_stem \o <<"_box", ".gro">>
      solvated_gro == input_stem \o <<"_solvated", ".gro">>
      ionized_gro  == input_stem \o <<"_ionized", ".gro">>
      s2 == [s1 EXCEPT !.input = input_coord]
      sA == StepA(s2, input_coord, system_gro, forcefield, water_model, oc)
      sB == IF water_model # "none"
            THEN StepBSolvated(sA, system_gro, box_gro, solvated_gro, ionized_gro, oc)
            ELSE StepBVacuum(sA, input_coord, system_gro, box_gro, oc)
  IN  IF input_coord = NoFile THEN Abort(s1, "400")
      ELSE IF sA.response # "" THEN sA
      ELSE IF sB.response # "" THEN sB
      ELSE StepC(sB, oc)

AllOutcomes ==
  [pdb1 : PdbOutcomes, pdb2 : PdbOutcomes, editconf : BOOLEAN,
   solvate : BOOLEAN, grompp_ions : GromppOutcomes, genion : BOOLEAN,
   grompp : GromppOutcomes]

\* A run stops at its first failing stage: the outcomes of the stages after
\* it are never observed and are fixed to success.
TailFailures(oc) ==
  (IF oc.editconf THEN 0 ELSE 1) + (IF oc.solvate THEN 0 ELSE 1)
  + (IF GromppSuccess(oc.grompp_ions) THEN 0 ELSE 1)
  + (IF oc.genion THEN 0 ELSE 1) + (IF GromppSuccess(oc.grompp) THEN 0 ELSE 1)

Outcomes ==
  { oc \in AllOutcomes :
      /\ oc.pdb1 # "residue" => oc.pdb2 = "ok"
      /\ TailFailures(oc) <= 1
      /\ (PdbFailed(oc.pdb1) /\ PdbFailed(oc.pdb2)) => TailFailures(oc) = 0
      /\ oc.pdb1 = "other" => TailFailures(oc) = 0 }

AllOk ==
  [pdb1 |-> "ok", pdb2 |-> "ok", editconf |-> TRUE, solvate |-> TRUE,
   grompp_ions |-> [rc |-> 0, err |-> FALSE], genion |-> TRUE,
   grompp |-> [rc |-> 0, err |-> FALSE]]

\* The two outcomes used where only the job matters
JobOutcomes == { AllOk, [AllOk EXCEPT !.pdb1 = "other"] }

\* _persist_run_status(session, status)
_persist_run_status(old, status) == status

\* time.time() is read after Popen has returned: every write made before the
\* launch has a strictly smaller mtime, so the launch moves the clock on.
StartSimulation(oc, raises) ==
  /\ NextPid(procs) <= MaxLaunch
  /\ IF ~registered
     THEN /\ run' = [NoRun EXCEPT !.response = "404"]
          /\ UNCHANGED << fs, archive, backups, cfg, registered, mdrun_proc,
                          procs, sim_status, run_status, logs, clock, result,
                          termSince, chosen, tool >>
          /\ stopped' = {}
     ELSE LET s0 == [fs |-> fs, archive |-> archive, backups |-> backups,
                     cfg |-> cfg, calls |-> <<>>, deleted |-> {},
                     written |-> <<>>, response |-> "", input |-> NoFile,
                     coord_file |-> NoFile]
              pid == NextPid(procs)
              output_prefix == "simulation/md"
          IN  \E sC \in {Pipeline(s0, oc)} : LET ok == sC.response = "" IN
              /\ fs' = sC.fs
              /\ archive' = sC.archive
              /\ backups' = sC.backups
              /\ cfg' = sC.cfg
              /\ run' = [calls |-> IF ok THEN Append(sC.calls, <<"mdrun", output_prefix, "ok">>)
                                   ELSE sC.calls,
                         deleted |-> sC.deleted, written |-> sC.written,
                         response |-> IF ok THEN "running" ELSE sC.response,
                         input |-> sC.input, before |-> fs,
                         clean |-> (oc = AllOk),
                         prev_clean |-> (run.response = "running" /\ run.clean),
                         cfg_before |-> cfg]
              /\ IF ok
                 THEN /\ procs' = MdrunProcs(CleanupProcs(procs, mdrun_proc, raises),
                                             pid, output_prefix)
                      /\ mdrun_proc' = pid
                      /\ clock' = clock + 1
                      /\ sim_status' = [started_at |-> clock + 1,
                                        output_prefix |-> output_prefix,
                                        expected_nsteps |-> sC.cfg.nsteps,
                                        has_expected |-> TRUE]
                      /\ run_status' = _persist_run_status(
                                          _persist_run_status(run_status, "setting_up"),
                                          "running")
                      /\ termSince' = FALSE
                 ELSE /\ run_status' = _persist_run_status(run_status, "setting_up")
                      /\ UNCHANGED << procs, mdrun_proc, sim_status, termSince, clock >>
              /\ result' = IF ok THEN NoResult ELSE result
              /\ UNCHANGED << registered, logs, chosen, tool >>
              /\ stopped' = {}


\* ------------------------------------------------------------------------
\* Status reconciliation (session_manager.py)
\* ------------------------------------------------------------------------
\* The comparison with the launch time left out
StaleLog_never(ss, l) == FALSE

\* Line 184: the log is older than the launch and is skipped
StaleLog(ss, l) == ss.started_at > 0 /\ l.mtime < ss.started_at

\* What can go wrong while a status query reads its inputs: the log cannot
\* be read (_tail_text gives "" and the parser raises), the log parser
\* raises, the expected step count cannot be converted to an integer
StatusFaults == {"none", "log_unreadable", "parser_raises", "bad_nsteps"}

\* Lines 180-195: the verdict of one log file, "" when it decides nothing,
\* "raise" when reading it raises
LogVerdict(ss, l, fault) ==
  IF ~l.exists THEN ""
  ELSE IF StaleLog(ss, l) THEN ""
  ELSE IF fault = "log_unreadable" THEN "raise"
  ELSE IF l.fatal THEN "failed"
  ELSE IF fault = "parser_raises" THEN "raise"
  ELSE IF /\ fault # "bad_nsteps"
          /\ ss.expected_nsteps # {}
          /\ l.step >= 0
          /\ \A n \in ss.expected_nsteps : l.step >= n
       THEN "finished"
  ELSE ""

DetectedBy(status) == IF status = "failed" THEN "log_error" ELSE "step_reached"

\* _infer_terminal_status_from_outputs: the first log candidate that decides
_infer_terminal_status_from_outputs(ss, lg, fault) ==
  LET output_prefix == IF ss.output_prefix = "" THEN "simulation/md"
                       ELSE ss.output_prefix
      log_candidates == << LogPath(output_prefix), "simulation/md.log", "md.log" >>
      hit == { i \in DOMAIN log_candidates :
                 LogVerdict(ss, lg[log_candidates[i]], fault) # "" }
  IN  IF hit = {} THEN ""
      ELSE LogVerdict(ss, lg[log_candidates[MinOf(hit)]], fault)

\* Lines 210-217: expected_nsteps is filled in from the configuration
WithExpected(ss, c, fault) ==
  IF ~ss.has_expected /\ c.nsteps # {} /\ fault # "bad_nsteps"
  THEN [ss EXCEPT !.expected_nsteps = c.nsteps, !.has_expected = TRUE]
  ELSE ss

\* The exit code not looked at
ExitStatus_anyexit(st) == "finished"

\* Lines 245-252: "finished" if rc == 0 else "failed", with the exit code
ExitStatus(st) == IF st = "exit0" THEN "finished" ELSE "failed"
ExitCode(st) == IF st = "exit0" THEN 0 ELSE 1

Raised ==
  [running |-> FALSE, status |-> "raised", pid |-> 0, exit_code |-> {},
   detected_by |-> ""]

\* The exception of the body let through to the caller
Guarded_propagates(res, exc) == IF exc THEN Raised ELSE res

\* The try/except around the body of get_simulation_status (lines 205-255):
\* an exception ends in the final return of standby
Guarded(res, exc) == IF exc THEN Standby ELSE res

\* get_simulation_status: the response, session.sim_status afterwards,
\* whether _cleanup has run and the runner's handle afterwards
get_simulation_status(reg, ss0, c, proc, pr, lg, fault) ==
  IF ~reg
  THEN [res |-> Standby, ss |-> ss0, cleanup |-> FALSE, handle |-> proc]
  ELSE
  LET ss == WithExpected(ss0, c, fault)
      inferred == _infer_terminal_status_from_outputs(ss, lg, fault)
      res == IF inferred \in Terminal
             THEN [running |-> FALSE, status |-> inferred, pid |-> proc,
                   exit_code |-> {}, detected_by |-> DetectedBy(inferred)]
             ELSE IF proc = 0 THEN Standby
             ELSE IF Alive(pr, proc)
             THEN [running |-> TRUE, status |-> "running", pid |-> proc,
                   exit_code |-> {}, detected_by |-> ""]
             ELSE [running |-> FALSE, status |-> ExitStatus(pr[proc].st),
                   pid |-> proc, exit_code |-> {ExitCode(pr[proc].st)},
                   detected_by |-> ""]
  IN  [res |-> Guarded(res, inferred = "raise"),
       ss |-> ss,
       cleanup |-> inferred \in Terminal,
       handle |-> IF inferred = "raise" THEN proc
                  ELSE IF inferred \in Terminal THEN CleanupHandle(proc)
                  ELSE IF proc # 0 /\ ~Alive(pr, proc) THEN 0
                  ELSE proc]

\* Lines 136-146: expected_nsteps read from config.yaml, None when the
\* value is absent or cannot be converted
DiskExpected(c, fault) ==
  IF c.nsteps # {} /\ fault # "bad_nsteps" THEN c.nsteps ELSE {}

\* Lines 151-159: the verdict of one log file in infer_run_status_from_disk
DiskLogVerdict(expected, l, fault) ==
  IF ~l.exists THEN ""
  ELSE IF fault = "log_unreadable" THEN "raise"
  ELSE IF l.fatal THEN "failed"
  ELSE IF fault = "parser_raises" THEN "raise"
  ELSE IF /\ expected # {}
          /\ l.step >= 0
          /\ \A n \in expected : l.step >= n
       THEN "finished"
  ELSE ""

\* md.log looked at before simulation/md.log
infer_run_status_from_disk_mdfirst(c, lg, fault) ==
  LET expected == DiskExpected(c, fault)
      log_candidates == << "md.log", "simulation/md.log" >>
      hit == { i \in DOMAIN log_candidates :
                 DiskLogVerdict(expected, lg[log_candidates[i]], fault) # "" }
  IN  IF hit = {} THEN ""
      ELSE DiskLogVerdict(expected, lg[log_candidates[MinOf(hit)]], fault)

\* infer_run_status_from_disk: "failed", "finished" or "" for None, from
\* simulation/md.log and then md.log
infer_run_status_from_disk(c, lg, fault) ==
  LET expected == DiskExpected(c, fault)
      log_candidates == << "simulation/md.log", "md.log" >>
      hit == { i \in DOMAIN log_candidates :
                 DiskLogVerdict(expected, lg[log_candidates[i]], fault) # "" }
  IN  IF hit = {} THEN ""
      ELSE DiskLogVerdict(expected, lg[log_candidates[MinOf(hit)]], fault)

\* Both reconciliation routines applied to the logs of a session that has
\* no launch metadata: the one of the status query and the one of the
\* session list
Reconcile(fault) ==
  /\ sim_status = EmptySimStatus
  /\ mdrun_proc = 0
  /\ tool' = [op |-> "reconcile", fault |-> fault,
              mem |-> _infer_terminal_status_from_outputs(
                         WithExpected(sim_status, cfg, fault), logs, fault),
              disk |-> infer_run_status_from_disk(cfg, logs, fault)]
  /\ UNCHANGED << fs, archive, backups, cfg, run, registered, mdrun_proc,
                  procs, sim_status, run_status, logs, clock, result,
                  termSince, chosen, stopped >>

\* simulation_status: get_simulation_status, then the persist of a terminal
\* status when the session is in the registry
QueryStatus(raises, fault) ==
  \E r \in { get_simulation_status(registered, sim_status, cfg, mdrun_proc,
                                     procs, logs, fault) } :
      /\ sim_status' = r.ss
      /\ result' = r.res
      /\ procs' = IF r.cleanup THEN CleanupProcs(procs, mdrun_proc, raises)
                  ELSE procs
      /\ mdrun_proc' = r.handle
      /\ run_status' = IF registered /\ r.res.status \in Terminal
                       THEN _persist_run_status(run_status, r.res.status)
                       ELSE run_status
      /\ termSince' = (termSince \/ r.res.status \in Terminal)
      /\ stopped' = {}
      /\ UNCHANGED << fs, archive, backups, cfg, run, registered, logs, clock,
                      chosen, tool >>

\* A status query whose inputs are all readable
SimulationStatus(raises) == QueryStatus(raises, "none")

\* A status query during which reading an input fails
SimulationStatusFaulty(raises, fault) ==
  /\ fault # "none"
  /\ QueryStatus(raises, fault)

\* The poll of the process left out: any handle counts as a live job
stop_session_simulation_nopoll(reg, h, pr) == reg /\ h # 0

\* stop_session_simulation, the value returned: the session is in the
\* registry and the process of the runner's handle is alive (lines 105-114)
stop_session_simulation(reg, h, pr) == reg /\ h # 0 /\ Alive(pr, h)

\* stop_simulation: _cleanup runs exactly when True is returned
StopSimulation(raises) ==
  LET live == stop_session_simulation(registered, mdrun_proc, procs)
  IN  /\ stopped' = {live}
      /\ procs' = IF live THEN CleanupProcs(procs, mdrun_proc, raises) ELSE procs
      /\ mdrun_proc' = IF live THEN CleanupHandle(mdrun_proc) ELSE mdrun_proc
      /\ UNCHANGED << fs, archive, backups, cfg, run, registered, sim_status,
                      run_status, logs, clock, result, termSince, chosen, tool >>

\* GROMACSRunner._cleanup called on the runner of the session; the call and
\* what the process did are recorded as the last blocking call
Terminate(how) ==
  /\ registered
  /\ LET r == _cleanup(procs, mdrun_proc, how)
     IN  /\ procs' = r.procs
         /\ mdrun_proc' = r.handle
         /\ tool' = [op |-> "_cleanup", how |-> how]
  /\ UNCHANGED << fs, archive, backups, cfg, run, registered, sim_status,
                  run_status, logs, clock, result, termSince, chosen, stopped >>

\* GROMACSRunner.mdrun called on the runner directly (the agent's tool)
DirectMdrun ==
  /\ registered
  /\ NextPid(procs) <= MaxLaunch
  /\ procs' = MdrunProcs(procs, NextPid(procs), "md")
  /\ mdrun_proc' = NextPid(procs)
  /\ termSince' = FALSE
  /\ result' = NoResult
  /\ stopped' = {}
  /\ UNCHANGED << fs, archive, backups, cfg, run, registered, sim_status,
                  run_status, logs, clock, chosen, tool >>

\* delete_session_endpoint: stop the simulation, then drop the session
DeleteSession(raises) ==
  /\ registered
  /\ registered' = FALSE
  /\ procs' = IF mdrun_proc # 0 /\ Alive(procs, mdrun_proc)
              THEN CleanupProcs(procs, mdrun_proc, raises) ELSE procs
  /\ mdrun_proc' = 0
  /\ sim_status' = EmptySimStatus
  /\ UNCHANGED << fs, archive, backups, cfg, run, run_status, logs, clock,
                  result, termSince, chosen, tool >>
  /\ stopped' = {}

\* The controller restarts: atexit runs _cleanup, the registry is empty
ControllerRestart(raises) ==
  /\ registered
  /\ registered' = FALSE
  /\ procs' = CleanupProcs(procs, mdrun_proc, raises)
  /\ mdrun_proc' = 0
  /\ sim_status' = EmptySimStatus
  /\ UNCHANGED << fs, archive, backups, cfg, run, run_status, logs, clock,
                  result, termSince, chosen, tool >>
  /\ stopped' = {}

\* restore_session: a new Session and a new agent (and runner)
RestoreSession ==
  /\ ~registered
  /\ registered' = TRUE
  /\ mdrun_proc' = 0
  /\ sim_status' = EmptySimStatus
  /\ UNCHANGED << fs, archive, backups, cfg, run, procs, run_status, logs,
                  clock, result, termSince, chosen, tool >>
  /\ stopped' = {}

\* ------------------------------------------------------------------------
\* Environment: the mdrun processes
\* ------------------------------------------------------------------------
ProcExit(p, rc) ==
  /\ Alive(procs, p)
  /\ procs' = [procs EXCEPT ![p].st = IF rc = 0 THEN "exit0" ELSE "exit1"]
  /\ UNCHANGED << fs, archive, backups, cfg, run, registered, mdrun_proc,
                  sim_status, run_status, logs, clock, result, termSince,
                  chosen, stopped, tool >>

\* mdrun writes <prefix>.log; a log of an earlier process is moved away first
LogWrite(p, kind) ==
  /\ Alive(procs, p)
  /\ LET path == LogPath(procs[p].prefix)
         old  == IF logs[path].exists /\ logs[path].owner = p THEN logs[path]
                 ELSE [NoLog EXCEPT !.exists = TRUE, !.owner = p]
         new  == IF kind = "fatal" THEN [old EXCEPT !.fatal = TRUE]
                 ELSE [old EXCEPT !.step = IF @ < MaxStep THEN @ + 1 ELSE @]
     IN  /\ ~old.fatal
         /\ logs' = [logs EXCEPT ![path] = [new EXCEPT !.mtime = clock]]
  /\ UNCHANGED << fs, archive, backups, cfg, run, registered, mdrun_proc,
                  procs, sim_status, run_status, clock, result, termSince,
                  chosen, stopped, tool >>


\* ------------------------------------------------------------------------
\* Blocking calls made on the runner directly (the agent's tools)
\* ------------------------------------------------------------------------
\* _run(args, timeout=...): the tool ends with rc, or it runs longer than
\* the timeout that was given
BlockingRun(rc, timeout_given, exceeds) ==
  /\ registered
  /\ tool' = _run(rc, timeout_given /\ exceeds)
  /\ UNCHANGED << fs, archive, backups, cfg, run, registered, mdrun_proc,
                  procs, sim_status, run_status, logs, clock, result,
                  termSince, chosen, stopped >>

\* grompp(mdp_file, topology_file, coordinate_file, output_tpr): gmx grompp
\* exits with 0 only when its three input files are there
GromppCall(coord, tpr, o) ==
  /\ registered
  /\ o.rc = 0 => {MD_MDP, TOPOL, coord} \subseteq DOMAIN fs
  /\ LET s0 == [fs |-> fs, backups |-> backups, calls |-> <<>>,
                written |-> <<>>]
         s1 == Grompp(s0, "grompp", coord, tpr, o)
     IN  /\ fs' = s1.fs
         /\ backups' = s1.backups
  /\ tool' = GromppResult(o, tpr)
  /\ UNCHANGED << archive, cfg, run, registered, mdrun_proc, procs,
                  sim_status, run_status, logs, clock, result, termSince,
                  chosen, stopped >>

\* ------------------------------------------------------------------------
\* wait_mdrun on the agent's worker thread (gromacs_tools.py lines 199-214)
\* ------------------------------------------------------------------------
\* wait_mdrun reads self._mdrun_proc anew at each of its lines, while the
\* handlers of the event loop clear or replace it. tool holds the position
\* of the call: "checked" after line 201, "communicate" while line 204
\* blocks on the process read there, "killed" after line 207, "done" with
\* the outcome: a returned dict ("no_job", "result", "timeout") or the
\* exception that left the function.
WaitRecord(pc, timeout, proc, outcome, raised) ==
  [op |-> "wait_mdrun", pc |-> pc, timeout |-> timeout, proc |-> proc,
   outcome |-> outcome, raised |-> raised]

Waiting == tool.op = "wait_mdrun" /\ tool.pc # "done"

\* Line 201: if self._mdrun_proc is None: return {"error": ...}
WaitCall(timeout_given) ==
  /\ registered
  /\ ~Waiting
  /\ tool' = IF mdrun_proc = 0
             THEN WaitRecord("done", timeout_given, 0, "no_job", "")
             ELSE WaitRecord("checked", timeout_given, 0, "", "")
  /\ UNCHANGED << fs, archive, backups, cfg, run, registered, mdrun_proc,
                  procs, sim_status, run_status, logs, clock, result,
                  termSince, chosen, stopped >>

\* Line 204: self._mdrun_proc.communicate(timeout=timeout) on the handle as
\* it is now; None has no communicate
WaitEnter ==
  /\ tool.op = "wait_mdrun"
  /\ tool.pc = "checked"
  /\ tool' = IF mdrun_proc = 0
             THEN WaitRecord("done", tool.timeout, 0, "", "AttributeError")
             ELSE WaitRecord("communicate", tool.timeout, mdrun_proc, "", "")
  /\ UNCHANGED << fs, archive, backups, cfg, run, registered, mdrun_proc,
                  procs, sim_status, run_status, logs, clock, result,
                  termSince, chosen, stopped >>

\* Lines 205, 210-214: communicate has returned because the process ended;
\* rc = self._mdrun_proc.returncode on the handle as it is now
WaitReturn ==
  /\ tool.op = "wait_mdrun"
  /\ tool.pc = "communicate"
  /\ ~Alive(procs, tool.proc)
  /\ tool' = IF mdrun_proc = 0
             THEN WaitRecord("done", tool.timeout, tool.proc, "", "AttributeError")
             ELSE WaitRecord("done", tool.timeout, tool.proc, "result", "")
  /\ UNCHANGED << fs, archive, backups, cfg, run, registered, mdrun_proc,
                  procs, sim_status, run_status, logs, clock, result,
                  termSince, chosen, stopped >>

\* Lines 206-207: communicate raises TimeoutExpired while the process runs;
\* self._mdrun_proc.kill() on the handle as it is now
WaitTimesOut ==
  /\ tool.op = "wait_mdrun"
  /\ tool.pc = "communicate"
  /\ tool.timeout
  /\ Alive(procs, tool.proc)
  /\ IF mdrun_proc = 0
     THEN /\ tool' = WaitRecord("done", TRUE, tool.proc, "", "AttributeError")
          /\ procs' = procs
     ELSE /\ tool' = WaitRecord("killed", TRUE, tool.proc, "", "")
          /\ procs' = IF Alive(procs, mdrun_proc)
                      THEN [procs EXCEPT ![mdrun_proc].st = "killed",
                                         ![mdrun_proc].sig = Append(@, "KILL")]
                      ELSE procs
  /\ UNCHANGED << fs, archive, backups, cfg, run, registered, mdrun_proc,
                  sim_status, run_status, logs, clock, result, termSince,
                  chosen, stopped >>

\* Lines 208-209: self._mdrun_proc.communicate() on the handle as it is
\* now, then the timeout result
WaitTimeoutReturn ==
  /\ tool.op = "wait_mdrun"
  /\ tool.pc = "killed"
  /\ mdrun_proc # 0 => ~Alive(procs, mdrun_proc)
  /\ tool' = IF mdrun_proc = 0
             THEN WaitRecord("done", TRUE, tool.proc, "", "AttributeError")
             ELSE WaitRecord("done", TRUE, tool.proc, "timeout", "")
  /\ UNCHANGED << fs, archive, backups, cfg, run, registered, mdrun_proc,
                  procs, sim_status, run_status, logs, clock, result,
                  termSince, chosen, stopped >>

\* ------------------------------------------------------------------------
\* The input resolution on its own (simulate.py lines 152-157)
\* ------------------------------------------------------------------------
ResolveInput ==
  /\ ~chosen.done
  /\ chosen' = [done |-> TRUE,
                file |-> _find_source_coord(DOMAIN fs, cfg.coordinates)]
  /\ UNCHANGED << fs, archive, backups, cfg, run, registered, mdrun_proc,
                  procs, sim_status, run_status, logs, clock, result,
                  termSince, stopped, tool >>

\* ------------------------------------------------------------------------
\* Specifications
\* ------------------------------------------------------------------------
A_GRO == <<"a", ".gro">>
A_PDB == <<"a", ".pdb">>
B_PDB == <<"b", ".pdb">>

SourceFiles(S) == [n \in S |-> <<"src", n>>]

InitJob ==
  /\ procs = [p \in Pids |-> [st |-> "unborn", prefix |-> "", sig |-> <<>>]]
  /\ mdrun_proc = 0
  /\ sim_status = EmptySimStatus
  /\ run_status = "standby"
  /\ clock = 1
  /\ result = NoResult
  /\ termSince = FALSE
  /\ registered = TRUE

InitCommon ==
  /\ archive = {}
  /\ backups = {}
  /\ run = NoRun
  /\ chosen = [done |-> FALSE, file |-> NoFile]
  /\ stopped = {}
  /\ tool = NoTool

\* A md.log left in work_dir by an earlier agent-driven run
OldFatalLog == [NoLog EXCEPT !.exists = TRUE, !.fatal = TRUE]

\* The job lifecycle of one session with one uploaded structure; every
\* pipeline run of it gets to the launch (the runs that abort are those of
\* SpecRunner and SpecPipe)
Init ==
  /\ InitJob
  /\ InitCommon
  /\ \E l \in {NoLog, OldFatalLog} :
        logs = [path \in LogPaths |-> IF path = "md.log" THEN l ELSE NoLog]
  /\ fs = SourceFiles({A_PDB})
  /\ cfg \in [coordinates : {A_PDB}, forcefield : {DefaultFF},
              water_model : {"none"}, nsteps : {{}, {ExpectedSteps}}]

Next ==
  \/ \E raises \in BOOLEAN : StartSimulation(AllOk, raises)
  \/ \E raises \in BOOLEAN : SimulationStatus(raises)
  \/ \E raises \in BOOLEAN : StopSimulation(raises)
  \/ \E raises \in BOOLEAN : DeleteSession(raises)
  \/ \E raises \in BOOLEAN : ControllerRestart(raises)
  \/ RestoreSession
  \/ \E p \in Pids : \E rc \in {0, 1} : ProcExit(p, rc)
  \/ \E p \in Pids : \E kind \in {"step", "fatal"} : LogWrite(p, kind)

Spec == Init /\ [][Next]_vars

\* The job lifecycle with status queries that hit unreadable logs, a failing
\* log parser, a malformed expected step count or a failing cleanup; the
\* signals of the other handlers are delivered
NextMonitor ==
  \/ StartSimulation(AllOk, FALSE)
  \/ \E raises \in BOOLEAN : SimulationStatus(raises)
  \/ \E raises \in BOOLEAN : \E fault \in StatusFaults :
        SimulationStatusFaulty(raises, fault)
  \/ StopSimulation(FALSE)
  \/ DeleteSession(FALSE)
  \/ RestoreSession
  \/ \E p \in Pids : \E rc \in {0, 1} : ProcExit(p, rc)
  \/ \E p \in Pids : \E kind \in {"step", "fatal"} : LogWrite(p, kind)

SpecMonitor == Init /\ [][NextMonitor]_vars

\* The runner's job slot: launches through the pipeline and through
\* GROMACSRunner.mdrun, with signals that are delivered and without the logs
NextRunner ==
  \/ \E oc \in JobOutcomes : StartSimulation(oc, FALSE)
  \/ DirectMdrun
  \/ SimulationStatus(FALSE)
  \/ StopSimulation(FALSE)
  \/ \E p \in Pids : \E rc \in {0, 1} : ProcExit(p, rc)

SpecRunner == Init /\ [][NextRunner]_vars

\* The runner's terminate and the stop endpoint, over jobs launched on the
\* runner
NextTerminate ==
  \/ DirectMdrun
  \/ \E p \in Pids : \E rc \in {0, 1} : ProcExit(p, rc)
  \/ \E how \in CleanupHows : Terminate(how)
  \/ \E raises \in BOOLEAN : StopSimulation(raises)
  \/ \E raises \in BOOLEAN : DeleteSession(raises)
  \/ RestoreSession

SpecTerminate == Init /\ [][NextTerminate]_vars

\* wait_mdrun in the worker thread while the event loop serves launches,
\* status queries and stop requests of the same session
NextWait ==
  \/ StartSimulation(AllOk, FALSE)
  \/ SimulationStatus(FALSE)
  \/ StopSimulation(FALSE)
  \/ \E p \in Pids : \E rc \in {0, 1} : ProcExit(p, rc)
  \/ \E timeout_given \in BOOLEAN : WaitCall(timeout_given)
  \/ WaitEnter
  \/ WaitReturn
  \/ WaitTimesOut
  \/ WaitTimeoutReturn

SpecWait == Init /\ [][NextWait]_vars

\* Blocking tool calls on the runner of a session whose inputs are there
\* or not
ToolRcs == {0, 1, 2}

ToolGromppOutcomes == [rc : ToolRcs, err : BOOLEAN]

A_BOX_GRO == <<"a", "_box", ".gro">>

InitTools ==
  /\ InitJob
  /\ InitCommon
  /\ logs = [path \in LogPaths |-> NoLog]
  /\ \E S \in SUBSET {MD_MDP, TOPOL, A_BOX_GRO} : fs = SourceFiles(S)
  /\ cfg \in [coordinates : {A_BOX_GRO}, forcefield : {DefaultFF},
              water_model : {"none"}, nsteps : {{}}]

NextTools ==
  \/ \E rc \in ToolRcs : \E timeout_given, exceeds \in BOOLEAN :
        BlockingRun(rc, timeout_given, exceeds)
  \/ \E tpr \in {MD_TPR, IONS_TPR} : \E o \in ToolGromppOutcomes :
        GromppCall(A_BOX_GRO, tpr, o)

SpecTools == InitTools /\ [][NextTools]_vars

\* The two reconciliation routines over every state of the two log files
LogStates ==
  {NoLog} \cup
  { [exists |-> TRUE, mtime |-> 1, fatal |-> f, step |-> k, owner |-> 0] :
      f \in BOOLEAN, k \in -1 .. MaxStep }

InitInfer ==
  /\ InitJob
  /\ InitCommon
  /\ logs \in [LogPaths -> LogStates]
  /\ fs = SourceFiles({A_PDB})
  /\ cfg \in [coordinates : {A_PDB}, forcefield : {DefaultFF},
              water_model : {"none"}, nsteps : {{}, {ExpectedSteps}}]

NextInfer == \E fault \in StatusFaults : Reconcile(fault)

SpecInfer == InitInfer /\ [][NextInfer]_vars

\* Repeated pipeline runs over the uploads and configurations of a session
PipeDirs == { {}, {A_PDB}, {A_GRO, A_PDB}, {A_PDB, B_PDB} }

InitPipe ==
  /\ InitJob
  /\ InitCommon
  /\ logs = [path \in LogPaths |-> NoLog]
  /\ \E S \in PipeDirs : fs = SourceFiles(S)
  /\ cfg \in [coordinates : {NoFile, A_GRO, B_PDB},
              forcefield : {NoneV, "charmm27"},
              water_model : {"none", "tip3p"},
              nsteps : {{ExpectedSteps}}]

NextPipe == \E oc \in Outcomes : StartSimulation(oc, FALSE)

SpecPipe == InitPipe /\ [][NextPipe]_vars

\* _find_source_coord over every directory content and preferred name
ResolveNames ==
  { A_GRO, A_PDB, B_PDB, <<"a", "_box", ".pdb">>,
    <<"a", "_ionized", ".gro">>, <<"a", "_box", ".gro">>,
    <<"b", "_system", ".gro">>, <<"b", "_BOX", ".GRO">>, <<"box", ".gro">> }

ResolvePreferred ==
  {NoFile} \cup ResolveNames
  \cup { <<"b", "_ionized", ".gro">>, <<"sub/", "a", ".pdb">>,
         <<"sub/", "a", "_box", ".gro">> }

InitResolve ==
  /\ InitJob
  /\ InitCommon
  /\ logs = [path \in LogPaths |-> NoLog]
  /\ \E S \in SUBSET ResolveNames : fs = SourceFiles(S)
  /\ cfg \in [coordinates : ResolvePreferred, forcefield : {DefaultFF},
              water_model : {"none"}, nsteps : {{}}]

NextResolve == ResolveInput

SpecResolve == InitResolve /\ [][NextResolve]_vars


\* ------------------------------------------------------------------------
\* Properties
\* ------------------------------------------------------------------------
\* A step that is a call of the status endpoint (what no query changes is
\* compared first)
QueryStep ==
  /\ logs' = logs
  /\ registered' = registered
  /\ clock' = clock
  /\ stopped' = {}
  /\ \E raises \in BOOLEAN : SimulationStatus(raises)

\* C1: once a status query of a session has reported finished or failed,
\* every later status query of that session, with no launch in between,
\* reports finished or failed again.
C1_MonotonicTerminal ==
  [][(termSince /\ registered /\ QueryStep) => result'.status \in Terminal]_vars

\* C2: every live mdrun process started through the runner is the one the
\* runner holds the handle of, so at most one is alive and none is left
\* running without a handle.
C2_SingleJobSlot ==
  \A p \in Pids : Alive(procs, p) => mdrun_proc = p

\* C3: a terminal status returned by a status query is written to
\* session.json, and a status query made while the session is not in the
\* registry returns the terminal status that session.json holds.
C3_DurableTerminal ==
  [][QueryStep =>
       /\ result'.status \in Terminal => run_status' = result'.status
       /\ (~registered /\ run_status \in Terminal) => result'.status = run_status
    ]_vars

\* The log of the live job of the handle shows a step counter that has
\* reached the expected total
JobLogReached ==
  /\ mdrun_proc # 0
  /\ Alive(procs, mdrun_proc)
  /\ sim_status.expected_nsteps # {}
  /\ LET l == logs[LogPath(procs[mdrun_proc].prefix)]
     IN  /\ l.exists
         /\ l.owner = mdrun_proc
         /\ \A n \in sim_status.expected_nsteps : l.step >= n

\* C4: with a job handle, a live process and a job log whose step counter
\* has reached the expected total, a status query reports finished.
C4_StepCompletionPrecedence ==
  [][(registered /\ JobLogReached /\ QueryStep) => result'.status = "finished"]_vars

OnlyStaleLogs ==
  \A path \in LogPaths :
     logs[path].exists => logs[path].mtime < sim_status.started_at

\* C5: for a job with a recorded launch time, a status query reports failed
\* from a log only when a log modified at or after the launch holds the fatal
\* marker; when every log on disk is older than the launch and the process
\* is alive, the query reports running.
C5_StaleLogImmunity ==
  [][(registered /\ sim_status.started_at > 0 /\ QueryStep) =>
       /\ result'.detected_by = "log_error" =>
            \E path \in LogPaths :
               /\ logs[path].exists
               /\ logs[path].fatal
               /\ logs[path].mtime >= sim_status.started_at
       /\ (OnlyStaleLogs /\ mdrun_proc # 0 /\ Alive(procs, mdrun_proc)) =>
            result'.status = "running"
    ]_vars

\* A query has answered running for the live job while the log of an earlier
\* job, older than the launch, holds the fatal marker
C5_Witness ==
  /\ registered
  /\ mdrun_proc # 0
  /\ Alive(procs, mdrun_proc)
  /\ result.status = "running"
  /\ result.pid = mdrun_proc
  /\ sim_status.started_at > 0
  /\ OnlyStaleLogs
  /\ logs["simulation/md.log"].exists
  /\ logs["simulation/md.log"].fatal

\* C6: after two consecutive pipeline runs in which every tool succeeded,
\* topol.top and the derived coordinate files have the same names and the
\* same content as after the first of the two.
C6_PipelineIdempotent ==
  (run.response = "running" /\ run.clean /\ run.prev_clean) =>
     Artifacts(fs) = Artifacts(run.before)

\* C7: every file of the working directory that a pipeline run regenerates
\* or clears away is moved to work_dir/archive first: it is not deleted and
\* no tool finds it in place and backs it up.
C7_ArchiveNeverDelete ==
  \A n \in DOMAIN run.before :
     (n \in DOMAIN run.written \/ n \in run.deleted) =>
        /\ <<n, run.before[n]>> \in archive
        /\ n \notin run.deleted
        /\ n \notin backups

\* A name of the derived-suffix taxonomy
DerivedName(n) ==
  /\ Len(n) >= 2
  /\ Lower(n[Len(n)]) = ".gro"
  /\ \/ Lower(n[Len(n) - 1]) \in {"_system", "_box", "_solvated", "_ionized"}
     \/ Len(n) = 2 /\ Lower(n[1]) \in {"system", "box", "solvated", "ionized"}

\* C8: the file chosen as pipeline input is a file of the working directory
\* that is not a derived name, and it is the recorded coordinate file when
\* that file exists and is not derived.
C8_AuthoritativeInput ==
  chosen.done =>
    LET p == PathName(cfg.coordinates)
    IN  /\ chosen.file # NoFile =>
             (chosen.file \in DOMAIN fs /\ ~DerivedName(chosen.file))
        /\ (p # NoFile /\ p \in DOMAIN fs /\ ~DerivedName(p)) => chosen.file = p

\* The recorded file is a derived file that exists, and a source was chosen
C8_Witness ==
  /\ chosen.done
  /\ chosen.file # NoFile
  /\ PathName(cfg.coordinates) \in DOMAIN fs
  /\ DerivedName(PathName(cfg.coordinates))

CallFailed(c) == c[3] \notin {"ok", "ok_nofile"}

Tools(c) == [i \in DOMAIN c |-> c[i][1]]

SucceededTools(c) == Tools(SelectSeq(c, LAMBDA x : ~CallFailed(x)))

ExpectedStages(water) ==
  IF water # "none"
  THEN <<"pdb2gmx", "editconf", "solvate", "grompp_ions", "genion", "grompp", "mdrun">>
  ELSE <<"pdb2gmx", "editconf", "grompp", "mdrun">>

\* C9: in a pipeline run no tool is invoked after a tool that failed (but
\* the one fallback of pdb2gmx), a run whose last tool failed launches no
\* job and leaves every file its tools wrote in place, and a job is launched
\* only after every stage of the branch has succeeded.
C9_AbortOnFailure ==
  [][run' # run =>
       LET c == run'.calls
       IN  /\ \A i \in DOMAIN c :
                CallFailed(c[i]) =>
                   \/ i = Len(c)
                   \/ i = 1 /\ c[1][1] = "pdb2gmx" /\ c[2][1] = "pdb2gmx"
           /\ (c # <<>> /\ CallFailed(c[Len(c)])) =>
                /\ procs' = procs
                /\ mdrun_proc' = mdrun_proc
                /\ run'.response # "running"
                /\ \A n \in DOMAIN run'.written :
                      n \in DOMAIN fs' /\ fs'[n] = run'.written[n]
           /\ procs' # procs =>
                SucceededTools(c)
                  = ExpectedStages(SelectOr(run'.cfg_before.water_model, "none"))
    ]_vars

\* A run that stopped at solvate, with the box of editconf still there
C9_Witness ==
  /\ run.response = "500:solvate"
  /\ Len(run.calls) >= 3
  /\ \E n \in DOMAIN run.written : EndsWith(n, <<"_box", ".gro">>) /\ n \in DOMAIN fs

\* C10: pdb2gmx is the first tool of a run and is invoked at most twice; the
\* second invocation happens exactly when the first failed with the
\* residue-not-found diagnostic under a configured force field that is not
\* the default, it uses the default force field, and when it succeeds the
\* configuration holds the default force field afterwards; every other tool
\* is invoked at most once and any other failure is the last call of the run.
C10_RetryPolicy ==
  LET c == run.calls
      pdb == { i \in DOMAIN c : c[i][1] = "pdb2gmx" }
      ff0 == SelectOr(run.cfg_before.forcefield, DefaultFF)
      retried == (c[1][3] = "residue" /\ ff0 # DefaultFF)
  IN  c # <<>> =>
        /\ 1 \in pdb
        /\ pdb \subseteq {1, 2}
        /\ c[1][2] = ff0
        /\ retried <=> Cardinality(pdb) = 2
        /\ Cardinality(pdb) = 2 =>
             /\ c[2][2] = DefaultFF
             /\ ~CallFailed(c[2]) => cfg.forcefield = DefaultFF
        /\ \A i, j \in DOMAIN c :
             (c[i][1] = c[j][1] /\ c[i][1] # "pdb2gmx") => i = j
        /\ \A i \in DOMAIN c :
             (CallFailed(c[i]) /\ ~(i = 1 /\ retried)) => i = Len(c)

\* A run whose pdb2gmx fell back to the default force field and went on to
\* the launch
C10_Witness ==
  /\ run.response = "running"
  /\ Len(run.calls) >= 2
  /\ run.calls[1][3] = "residue"
  /\ run.calls[2] = <<"pdb2gmx", DefaultFF, "ok">>
  /\ run.cfg_before.forcefield # DefaultFF
  /\ cfg.forcefield = DefaultFF

\* C11: terminate() without a job handle changes nothing; on a live job the
\* first signal is the graceful one and the kill follows exactly when the
\* process is still alive after the grace period; no other process is
\* touched; the handle is empty afterwards in every case, signalling that
\* raises included, and a second terminate() then changes nothing.
C11_TerminateSemantics ==
  [][\A how \in CleanupHows :
       Terminate(how) =>
         LET h == mdrun_proc
         IN  /\ mdrun_proc' = 0
             /\ h = 0 => procs' = procs
             /\ \A p \in Pids : p # h => procs'[p] = procs[p]
             /\ (h # 0 /\ ~Alive(procs, h)) => procs' = procs
             /\ (h # 0 /\ Alive(procs, h)) =>
                  LET sent == procs'[h].sig
                  IN  /\ how = "exits" => sent = <<"TERM">>
                      /\ how = "stubborn" => sent = <<"TERM", "KILL">>
                      /\ sent # <<>> => (sent[1] = "TERM" /\ ~Alive(procs', h))
             /\ \A again \in CleanupHows :
                  _cleanup(procs', mdrun_proc', again)
                    = [procs |-> procs', handle |-> 0]
    ]_vars

\* A job that was still alive after the grace period has been killed, and
\* the runner holds no handle
C11_Witness ==
  /\ mdrun_proc = 0
  /\ \E p \in Pids : procs[p].st = "killed" /\ procs[p].sig = <<"TERM", "KILL">>

\* A step that is a call of the stop endpoint
StopStep == \E raises \in BOOLEAN : StopSimulation(raises)

AnyQueryStep ==
  /\ logs' = logs
  /\ registered' = registered
  /\ clock' = clock
  /\ stopped' = {}
  /\ \E raises \in BOOLEAN : \E fault \in StatusFaults : QueryStatus(raises, fault)

StatusValues == {"standby", "running", "finished", "failed"}

\* C15: every status query, whatever the state of the session, the runner,
\* the logs and the metadata and whatever fails while they are read, returns
\* one of the four status values and raises nothing; for a session that is
\* not in the registry the answer is standby, and an answer of standby has
\* running = false and carries nothing else.
C15_StatusNeverFails ==
  [][AnyQueryStep =>
       /\ result'.status \in StatusValues
       /\ ~registered => result' = Standby
       /\ result'.status = "standby" => result' = Standby
       /\ registered' = registered
    ]_vars

\* A query has answered standby although the job of the handle is alive and
\* has written its log since the launch: reading the log failed
C15_Witness ==
  /\ registered
  /\ result = Standby
  /\ mdrun_proc # 0
  /\ Alive(procs, mdrun_proc)
  /\ LET l == logs[LogPath(procs[mdrun_proc].prefix)]
     IN  l.exists /\ l.owner = mdrun_proc /\ l.mtime >= sim_status.started_at

\* C13: a blocking tool call that runs longer than its timeout ends with
\* the spawned process killed and with a failure result flagged as a
\* timeout returned to the caller; nothing is raised.
C13_TimeoutKills ==
  (tool.op = "_run" /\ tool.timed_out) =>
     /\ tool.child # "alive"
     /\ tool.raised = ""
     /\ ~tool.success
     /\ tool.timeout_flag

\* C14: the result of grompp has success = true exactly when the exit code
\* of the tool is zero and its stderr holds no embedded error marker; a
\* nonzero exit code is returned unchanged; the tpr file is declared in
\* output_files exactly when success is true.
C14_GromppClassification ==
  tool.op = "grompp" =>
     /\ tool.success <=> (tool.rc_in = 0 /\ ~tool.err_in)
     /\ tool.success <=> (tool.returncode = 0)
     /\ tool.rc_in # 0 => tool.returncode = tool.rc_in
     /\ tool.output_files # {} <=> tool.success
     /\ tool.output_files \subseteq {MD_TPR, IONS_TPR}

\* grompp exited with 0 and stderr held the error marker: the result is a
\* failure that declares no tpr, while the tool has written the file
C14_Witness ==
  /\ tool.op = "grompp"
  /\ tool.rc_in = 0
  /\ tool.err_in
  /\ ~tool.success
  /\ tool.output_files = {}
  /\ MD_TPR \in DOMAIN fs

\* C16: a pipeline run, whether it launches the job or aborts, leaves every
\* value of the configuration as it was when the run started.
C16_ConfigReadOnly ==
  run.response \notin {"", "404"} => cfg = run.cfg_before

\* C17: the run status held in session.json is one of standby, running,
\* finished, failed in every reachable state.
C17_PersistedStatusDomain ==
  run_status \in StatusValues

\* A log on disk shows a step counter that has reached the configured total
DiskLogReached ==
  /\ cfg.nsteps # {}
  /\ \E path \in LogPaths :
        /\ logs[path].exists
        /\ \A n \in cfg.nsteps : logs[path].step >= n

\* C18: for a session without job handle and without launch metadata (the
\* controller has restarted) whose processes have all ended, a status query
\* made while a log on disk shows a step counter that has reached the
\* configured total answers finished with running = false.
C18_RestartReconciliation ==
  [][(/\ mdrun_proc = 0
      /\ sim_status = EmptySimStatus
      /\ \A p \in Pids : ~Alive(procs, p)
      /\ DiskLogReached
      /\ QueryStep)
       => (result'.status = "finished" /\ ~result'.running)]_vars

\* C19: in the state a pipeline run leaves when it has launched the job, the
\* job has the output prefix simulation/md and a status query answers
\* running for the process just started, whatever logs are on disk.
C19_RunningAfterLaunch ==
  [][clock' # clock =>
       LET r == get_simulation_status(registered', sim_status', cfg', mdrun_proc',
                                      procs', logs', "none")
       IN  /\ run'.response = "running"
           /\ sim_status'.output_prefix = "simulation/md"
           /\ mdrun_proc' # 0
           /\ r.res.status = "running"
           /\ r.res.running
           /\ r.res.pid = mdrun_proc'
    ]_vars

\* A query has answered running for a job launched by the pipeline that has
\* written no log yet, with the fatal md.log of an earlier run on disk
C19_Witness ==
  /\ run.response = "running"
  /\ result.status = "running"
  /\ result.pid = mdrun_proc
  /\ procs[mdrun_proc].prefix = "simulation/md"
  /\ logs["md.log"].exists
  /\ logs["md.log"].fatal
  /\ logs["md.log"].mtime < sim_status.started_at
  /\ logs["simulation/md.log"].owner # mdrun_proc

\* C20: for the input file chosen and each derived name built from its
\* stem, stripping the derived suffix gives back the stem, and the recovery
\* of the source from the derived name gives a file with that stem.
C20_SuffixInvertible ==
  (chosen.done /\ chosen.file # NoFile) =>
     LET stem == PathStem(chosen.file)
     IN  \A i \in DOMAIN DerivedSuffixes :
            LET d == stem \o <<DerivedSuffixes[i], ".gro">>
            IN  /\ _is_derived_coord(d)
                /\ StripDerivedSuffix(d) = stem
                /\ PathStem(RecoverSourceCoord(DOMAIN fs, d)) = stem

\* The input chosen has a stem that itself ends like a derived name
C20_Witness ==
  /\ chosen.done
  /\ chosen.file = <<"a", "_box", ".pdb">>

\* The place of a status in standby -> running -> {finished, failed}
StatusRank(s) ==
  CASE s = "standby" -> 0
    [] s = "running" -> 1
    [] OTHER -> 2

\* C21: between two launches the statuses that successive status queries of
\* a session report only move forward along standby -> running ->
\* {finished, failed}: a query never reports a status that comes before the
\* one the previous query reported.
C21_ForwardOnly ==
  [][(registered /\ result.status \in StatusValues /\ QueryStep) =>
       StatusRank(result'.status) >= StatusRank(result.status)]_vars

\* The log l, not older than the launch, shows a step counter at or above
\* the expected total of the status query
FreshReached(l) ==
  LET ss == WithExpected(sim_status, cfg, "none")
  IN  /\ l.exists
      /\ ~StaleLog(ss, l)
      /\ ss.expected_nsteps # {}
      /\ \A n \in ss.expected_nsteps : l.step >= n

\* C22: a status query evaluates the step-counter condition before the
\* fatal-marker condition: when the log of the job, not older than the
\* launch, shows the step target reached and holds a fatal marker, the
\* answer is finished; and failed is reported from a log only when a log
\* with the marker has not reached the step target.
C22_StepBeforeFatal ==
  [][(registered /\ QueryStep) =>
       LET ss == WithExpected(sim_status, cfg, "none")
           prefix == IF ss.output_prefix = "" THEN "simulation/md"
                     ELSE ss.output_prefix
           l == logs[LogPath(prefix)]
       IN  /\ (FreshReached(l) /\ l.fatal) => result'.status = "finished"
           /\ result'.detected_by = "log_error" =>
                \E path \in LogPaths :
                   /\ logs[path].exists
                   /\ logs[path].fatal
                   /\ ~FreshReached(logs[path])
    ]_vars

\* C23: whenever a status query answers finished or failed, from the log or
\* from the exit code of the process, the runner holds no job handle when
\* the query returns and reports no live job.
C23_HandleClearedOnTerminal ==
  [][(registered /\ QueryStep /\ result'.status \in Terminal) =>
       /\ mdrun_proc' = 0
       /\ ~is_mdrun_running(mdrun_proc', procs')
    ]_vars

\* A query has answered with a terminal status found in the log while the
\* process of the handle was alive; the process has been signalled and the
\* handle is empty
C23_Witness ==
  /\ registered
  /\ result.status \in Terminal
  /\ result.detected_by # ""
  /\ result.pid # 0
  /\ procs[result.pid].st = "killed"
  /\ mdrun_proc = 0

\* No log on disk that is not older than the launch holds a fatal marker or
\* shows the step target reached
NoLogVerdict ==
  \A path \in LogPaths :
     (logs[path].exists /\ logs[path].mtime >= sim_status.started_at) =>
        (~logs[path].fatal /\ ~FreshReached(logs[path]))

\* C24: with a job handle whose process has exited and no log that shows
\* the step target reached or a fatal marker, a status query answers
\* finished for exit code zero and failed otherwise, with the exit code in
\* the answer and running = false.
C24_ExitCodeFallback ==
  [][(/\ registered
      /\ mdrun_proc # 0
      /\ ~Alive(procs, mdrun_proc)
      /\ NoLogVerdict
      /\ QueryStep) =>
       \E rc \in {0, 1} :
          /\ procs[mdrun_proc].st = (IF rc = 0 THEN "exit0" ELSE "exit1")
          /\ result'.status = (IF rc = 0 THEN "finished" ELSE "failed")
          /\ result'.exit_code = {rc}
          /\ ~result'.running
          /\ result'.pid = mdrun_proc
    ]_vars

\* A query has answered failed with exit code 1 for a job whose log, written
\* after the launch, holds no marker and has not reached the step target
C24_Witness ==
  /\ result.status = "failed"
  /\ result.exit_code = {1}
  /\ result.pid # 0
  /\ procs[result.pid].st = "exit1"
  /\ logs["simulation/md.log"].exists
  /\ logs["simulation/md.log"].owner = result.pid
  /\ ~logs["simulation/md.log"].fatal
  /\ NoLogVerdict

\* The tools of a run in the order of their invocation, the second
\* invocation of pdb2gmx (the force-field fallback) left out
StagesOf(c) ==
  LET t == Tools(c)
  IN  IF Len(t) >= 2 /\ t[1] = "pdb2gmx" /\ t[2] = "pdb2gmx" THEN Tail(t) ELSE t

C26_DurableFollows ==
  [][(registered /\ QueryStep /\ mdrun_proc' = 0) => run_status' # "running"]_vars

\* C27: in every answer of a status query the running flag is true exactly
\* when the status is running, the status is one of standby, running,
\* finished, failed, and an exit code is there only with finished or failed.
C27_ResultConsistent ==
  [][AnyQueryStep =>
       /\ result'.running <=> result'.status = "running"
       /\ result'.status \in StatusValues
       /\ result'.exit_code # {} => result'.status \in Terminal
       /\ result'.running => (result'.pid # 0 /\ result'.pid = mdrun_proc')
    ]_vars

\* A query has answered finished with exit code 0 and running = false
C27_Witness ==
  /\ result.status = "finished"
  /\ result.exit_code = {0}
  /\ ~result.running
  /\ result.detected_by = ""

\* The non-derived coordinate files of a directory
SourceCoords(dir) ==
  { n \in dir : Lower(PathSuffix(n)) \in _COORD_EXTS /\ ~DerivedName(n) }

\* C28: a pipeline run that follows a run of the same session that went
\* through to the launch, the non-derived coordinate files of the working
\* directory being the same, resolves the same input file as that run did.
C28_StableInput ==
  [][(/\ run.response = "running"
      /\ run'.response \notin {"", "404"}
      /\ SourceCoords(DOMAIN fs) = SourceCoords(DOMAIN run.before))
       => run'.input = run.input]_vars

\* C29: a wait_mdrun call made on the worker thread ends with a returned
\* value (the result of the job, the timeout result or the no-job error)
\* and never with an exception, whatever the status queries, stop requests
\* and launches of the session do to the job handle meanwhile.
C29_WaitReturns ==
  (tool.op = "wait_mdrun" /\ tool.pc = "done") =>
     (tool.raised = "" /\ tool.outcome \in {"no_job", "result", "timeout"})

\* C30: for a session without launch metadata and with the same expected
\* step count, the reconciliation of the status query and the on-disk
\* inference of the session list give the same outcome (failed, finished
\* or unknown) for every state of simulation/md.log and md.log.
C30_ReconcileAgree ==
  tool.op = "reconcile" =>
     /\ tool.mem = tool.disk
     /\ tool.fault = "none" => tool.mem \in {"", "failed", "finished"}

\* Both routines have answered finished for a simulation/md.log at the
\* step target while md.log holds a fatal marker
C30_Witness ==
  /\ tool.op = "reconcile"
  /\ tool.fault = "none"
  /\ tool.mem = "finished"
  /\ tool.disk = "finished"
  /\ logs["md.log"].exists
  /\ logs["md.log"].fatal

====
